---- MODULE Spec2Model ----
(***************************************************************************)
(* A model of src/util.ts of coc-git: the shell-line process runner         *)
(* (runCommand, safeRun, getStdout), the program+args runner (spawnCommand, *)
(* runCommandWithData), shellescape, equals and getUrl.                     *)
(*                                                                         *)
(* Strings are sequences of one-character strings, so that concatenation,  *)
(* slicing, splitting and replacing are computed and not assumed.          *)
(***************************************************************************)
EXTENDS Integers, Sequences, FiniteSets, TLC

VARIABLES
  \* ---- shell-line runner: runCommand / safeRun / getStdout ----
  fn,        \* which exported function was called: "none", "runCommand", "safeRun", "getStdout"
  timeout,   \* the timeout argument handed to the promise executor (0 = zero or absent)
  timer,     \* "none" (never created), "armed", "fired", "cleared"
  proc,      \* the exec'd process: [status, code, stdout, stderr]
  promise,   \* the promise returned by runCommand / getStdout
  outer,     \* the promise returned by safeRun (async function)
  console,   \* lines written with console.error
  trace      \* history: the callbacks of the call that have run, in order

runVars == <<fn, timeout, timer, proc, promise, outer, console, trace>>

VARIABLES
  \* ---- program+args runner: spawnCommand / runCommandWithData ----
  sfn,       \* "none", "spawnCommand", "runCommandWithData"
  cp,        \* the spawned child: [status, code, stdin, stdinEnded]
  res,       \* the closure variable `res`
  spromise,  \* the returned promise
  messages,  \* calls of workspace.showMessage: <<[text, severity], ...>>
  outLog,    \* history: the stdout chunks emitted by the child, in arrival order
  errLog     \* history: the stderr chunks emitted by the child, in arrival order

spawnVars == <<sfn, cp, res, spromise, messages, outLog, errLog>>

VARIABLES
  \* ---- shellescape ----
  platform,  \* process.platform
  qs,        \* the argument s
  qout,      \* the returned string
  qwords,    \* the words a POSIX shell reads from qout
  qpc        \* "start", "escaped", "parsed"

quoteVars == <<platform, qs, qout, qwords, qpc>>

VARIABLES
  \* ---- equals ----
  one, other,  \* the arguments
  sameRef,     \* whether the two arguments are the same object reference
  eqResult,    \* the returned boolean
  eqpc         \* "start", "done"

equalsVars == <<one, other, sameRef, eqResult, eqpc>>

VARIABLES
  \* ---- getUrl ----
  remote, branch, filepath, lines,  \* the arguments
  url,       \* the returned string
  notices,   \* calls of workspace.showMessage made by getUrl
  upc        \* "start", "done"

urlVars == <<remote, branch, filepath, lines, url, notices, upc>>

vars == <<runVars, spawnVars, quoteVars, equalsVars, urlVars>>

\* Each call owns its state: a step of one component leaves the others alone.
notRun == <<spawnVars, quoteVars, equalsVars, urlVars>>
notSpawn == <<runVars, quoteVars, equalsVars, urlVars>>
notQuote == <<runVars, spawnVars, equalsVars, urlVars>>
notEquals == <<runVars, spawnVars, quoteVars, urlVars>>
notUrl == <<runVars, spawnVars, quoteVars, equalsVars>>

\* ---------------------------------------------------------------------------
\* Bounds
\* ---------------------------------------------------------------------------
MaxTimeout == 2     \* timeouts 0..MaxTimeout are tried by callers of runCommand / getStdout
MaxCode == 2        \* exit codes 0..MaxCode

\* The timeout safeRun passes to runCommand.
SafeRunTimeout == 5000

\* ---------------------------------------------------------------------------
\* Strings
\* ---------------------------------------------------------------------------
Digit(d) == <<"0", "1", "2", "3", "4", "5", "6", "7", "8", "9">>[d + 1]

\* Number-to-decimal-string conversion of a template literal `${n}`.
RECURSIVE Str(_)
Str(n) == IF n < 10 THEN <<Digit(n)>> ELSE Str(n \div 10) \o <<Digit(n % 10)>>

StartsWithAt(s, i, p) ==
  /\ i + Len(p) - 1 <= Len(s)
  /\ \A k \in 1..Len(p) : s[i + k - 1] = p[k]

Contains(s, p) == \E i \in 1..(Len(s) + 1) : StartsWithAt(s, i, p)

TimeoutAfter == <<"t", "i", "m", "e", "o", "u", "t", " ", "a", "f", "t", "e", "r", " ">>
ExitedWith == <<"e", "x", "i", "t", "e", "d", " ", "w", "i", "t", "h", " ">>

Stdouts == {<<>>, <<"o">>, <<"o", "k">>}
Stderrs == {<<>>, <<"E">>}

\* ---------------------------------------------------------------------------
\* Promises: a promise settles once; later resolve/reject calls are ignored.
\* kind is the JavaScript kind of the settled value.
\* ---------------------------------------------------------------------------
Pending == [state |-> "pending", kind |-> "none", value |-> <<>>]

resolve(p, kind, v) ==
  IF p.state = "pending" THEN [state |-> "resolved", kind |-> kind, value |-> v] ELSE p

reject(p, msg) ==
  IF p.state = "pending" THEN [state |-> "rejected", kind |-> "Error", value |-> msg] ELSE p

TimeoutMessage(t) == TimeoutAfter \o Str(t) \o <<"s">>
\* the captured stderr left out of the message
ExitMessage_NoStderr(code, stderr) == ExitedWith \o Str(code) \o <<"\n">>

ExitMessage(code, stderr) == ExitedWith \o Str(code) \o <<"\n">> \o stderr

NoProc == [status |-> "none", code |-> 0, stdout |-> <<>>, stderr |-> <<>>]
Running == [status |-> "running", code |-> 0, stdout |-> <<>>, stderr |-> <<>>]
Exited(code, stdout, stderr) ==
  [status |-> "exited", code |-> code, stdout |-> stdout, stderr |-> stderr]

IdleRun ==
  /\ fn = "none"
  /\ timeout = 0
  /\ timer = "none"
  /\ proc = NoProc
  /\ promise = Pending
  /\ outer = Pending
  /\ console = <<>>
  /\ trace = <<>>

\* The promise executor of runCommand and getStdout: `if (timeout) timer = setTimeout(...)`,
\* then exec(cmd, opts, callback).
Executor(t) ==
  /\ timeout' = t
  /\ timer' = IF t # 0 THEN "armed" ELSE "none"
  /\ proc' = Running
  /\ promise' = Pending

RunCommand(t) ==
  /\ fn = "none"
  /\ fn' = "runCommand"
  /\ Executor(t)
  /\ UNCHANGED <<outer, console, trace>>
  /\ UNCHANGED notRun

\* safeRun: `return await runCommand(cmd, opts, 5000)` up to the await.
SafeRun ==
  /\ fn = "none"
  /\ fn' = "safeRun"
  /\ Executor(SafeRunTimeout)
  /\ UNCHANGED <<outer, console, trace>>
  /\ UNCHANGED notRun

GetStdout(t) ==
  /\ fn = "none"
  /\ fn' = "getStdout"
  /\ Executor(t)
  /\ UNCHANGED <<outer, console, trace>>
  /\ UNCHANGED notRun

\* The setTimeout callback of runCommand (also reached through safeRun).
RunCommandTimer ==
  /\ fn \in {"runCommand", "safeRun"}
  /\ timer = "armed"
  /\ timer' = "fired"
  /\ promise' = reject(promise, TimeoutMessage(timeout))
  /\ trace' = Append(trace, "timer")
  /\ UNCHANGED <<fn, timeout, proc, outer, console>>
  /\ UNCHANGED notRun

\* The setTimeout callback of getStdout.
GetStdoutTimer ==
  /\ fn = "getStdout"
  /\ timer = "armed"
  /\ timer' = "fired"
  /\ promise' = reject(promise, TimeoutMessage(timeout))
  /\ trace' = Append(trace, "timer")
  /\ UNCHANGED <<fn, timeout, proc, outer, console>>
  /\ UNCHANGED notRun

\* clearTimeout forgotten: the timer stays armed after the exec callback
ClearTimeout_Kept(tm) == tm

\* `if (timer) clearTimeout(timer)`: a timer that exists and has not fired is cancelled.
ClearTimeout(tm) == IF tm = "armed" THEN "cleared" ELSE tm

\* The exec callback of runCommand: err is set when the exit code is not zero.
RunCommandCallback(code, stdout, stderr) ==
  /\ fn \in {"runCommand", "safeRun"}
  /\ proc.status = "running"
  /\ proc' = Exited(code, stdout, stderr)
  /\ timer' = ClearTimeout(timer)
  /\ promise' = IF code # 0
                  THEN reject(promise, ExitMessage(code, stderr))
                  ELSE resolve(promise, "string", stdout)
  /\ trace' = Append(trace, "callback")
  /\ UNCHANGED <<fn, timeout, outer, console>>
  /\ UNCHANGED notRun

\* the exec error propagated as in runCommand
GetStdoutCallback_RejectOnError(code, stdout, stderr) ==
  /\ fn = "getStdout"
  /\ proc.status = "running"
  /\ proc' = Exited(code, stdout, stderr)
  /\ timer' = ClearTimeout(timer)
  /\ promise' = IF code # 0
                  THEN reject(promise, ExitMessage(code, stderr))
                  ELSE IF stdout # <<>>
                    THEN resolve(promise, "string", stdout)
                    ELSE resolve(promise, "undefined", <<>>)
  /\ trace' = Append(trace, "callback")
  /\ UNCHANGED <<fn, timeout, outer, console>>
  /\ UNCHANGED notRun

\* The exec callback of getStdout: the error is ignored, an empty stdout is falsy.
GetStdoutCallback(code, stdout, stderr) ==
  /\ fn = "getStdout"
  /\ proc.status = "running"
  /\ proc' = Exited(code, stdout, stderr)
  /\ timer' = ClearTimeout(timer)
  /\ promise' = IF stdout # <<>>
                  THEN resolve(promise, "string", stdout)
                  ELSE resolve(promise, "undefined", <<>>)
  /\ trace' = Append(trace, "callback")
  /\ UNCHANGED <<fn, timeout, outer, console>>
  /\ UNCHANGED notRun

\* the catch branch logs and rethrows
SafeRunResume_Rethrow ==
  /\ fn = "safeRun"
  /\ promise.state # "pending"
  /\ outer.state = "pending"
  /\ IF promise.state = "resolved"
       THEN /\ outer' = resolve(outer, promise.kind, promise.value)
            /\ console' = console
       ELSE /\ console' = Append(console, promise.value)
            /\ outer' = reject(outer, promise.value)
  /\ UNCHANGED <<fn, timeout, timer, proc, promise, trace>>
  /\ UNCHANGED notRun

\* safeRun after the await: the try branch returns the value, the catch branch
\* logs e.message and returns null.
SafeRunResume ==
  /\ fn = "safeRun"
  /\ promise.state # "pending"
  /\ outer.state = "pending"
  /\ IF promise.state = "resolved"
       THEN /\ outer' = resolve(outer, promise.kind, promise.value)
            /\ console' = console
       ELSE /\ console' = Append(console, promise.value)
            /\ outer' = resolve(outer, "null", <<>>)
  /\ UNCHANGED <<fn, timeout, timer, proc, promise, trace>>
  /\ UNCHANGED notRun

RunNext ==
  \/ \E t \in 0..MaxTimeout : RunCommand(t)
  \/ SafeRun
  \/ \E t \in 0..MaxTimeout : GetStdout(t)
  \/ RunCommandTimer
  \/ GetStdoutTimer
  \/ \E c \in 0..MaxCode, o \in Stdouts, e \in Stderrs : RunCommandCallback(c, o, e)
  \/ \E c \in 0..MaxCode, o \in Stdouts, e \in Stderrs : GetStdoutCallback(c, o, e)
  \/ SafeRunResume

\* ---------------------------------------------------------------------------
\* Program+args runner: spawnCommand and runCommandWithData
\* ---------------------------------------------------------------------------
MaxChunks == 2      \* at most MaxChunks chunks arrive on each of stdout and stderr

Cmds == {<<"g", "i", "t">>}
ArgLists == {<<>>, <<(<<"l", "s">>), (<<"-", "z">>)>>}
StdinData == {<<>>, <<"d">>}
OutChunks == {<<"a">>, <<"b", "c">>}
ErrChunks == {<<"W">>, <<"!", "?">>}

ExitedWithCode ==
  <<" ", "e", "x", "i", "t", "e", "d", " ", "w", "i", "t", "h", " ", "c", "o", "d", "e", " ">>
ErrorColon == <<"\"", " ", "e", "r", "r", "o", "r", ":", " ">>

\* Array.prototype.join
RECURSIVE join(_, _)
join(list, sep) ==
  IF list = <<>> THEN <<>>
  ELSE IF Len(list) = 1 THEN list[1]
  ELSE list[1] \o sep \o join(Tail(list), sep)

\* `"${cmd} ${args.join(' ')}" error: ${data.toString()}`
StderrMessage(cmd, args, data) ==
  <<"\"">> \o cmd \o <<" ">> \o join(args, <<" ">>) \o ErrorColon \o data

\* `${cmd} exited with code ${code}`
CloseMessage(cmd, code) == cmd \o ExitedWithCode \o Str(code)

NoChild == [status |-> "none", code |-> 0, cmd |-> <<>>, args |-> <<>>,
            stdin |-> <<>>, stdinEnded |-> FALSE]

IdleSpawn ==
  /\ sfn = "none"
  /\ cp = NoChild
  /\ res = <<>>
  /\ spromise = Pending
  /\ messages = <<>>
  /\ outLog = <<>>
  /\ errLog = <<>>

\* spawn(cmd, args, {cwd})
spawn(cmd, args) ==
  [status |-> "running", code |-> 0, cmd |-> cmd, args |-> args,
   stdin |-> <<>>, stdinEnded |-> FALSE]

SpawnCommand(cmd, args) ==
  /\ sfn = "none"
  /\ sfn' = "spawnCommand"
  /\ cp' = spawn(cmd, args)
  /\ res' = <<>>
  /\ spromise' = Pending
  /\ UNCHANGED <<messages, outLog, errLog>>
  /\ UNCHANGED notSpawn

\* cp.stdin.write(data, 'utf8'); cp.stdin.end()
RunCommandWithData(cmd, args, data) ==
  /\ sfn = "none"
  /\ sfn' = "runCommandWithData"
  /\ cp' = [spawn(cmd, args) EXCEPT !.stdin = data, !.stdinEnded = TRUE]
  /\ res' = <<>>
  /\ spromise' = Pending
  /\ UNCHANGED <<messages, outLog, errLog>>
  /\ UNCHANGED notSpawn

\* `res = data.toString()`: each chunk overwrites the text
OnStdoutData_Overwrite(data) ==
  /\ cp.status = "running"
  /\ Len(outLog) < MaxChunks
  /\ res' = data
  /\ outLog' = Append(outLog, data)
  /\ UNCHANGED <<sfn, cp, spromise, messages, errLog>>

\* cp.stdout.on('data', data => { res += data.toString() })
OnStdoutData(data) ==
  /\ cp.status = "running"
  /\ Len(outLog) < MaxChunks
  /\ res' = res \o data
  /\ outLog' = Append(outLog, data)
  /\ UNCHANGED <<sfn, cp, spromise, messages, errLog>>

\* stderr is swallowed instead of being shown
OnStderrData_Silent(data) ==
  /\ cp.status = "running"
  /\ Len(errLog) < MaxChunks
  /\ messages' = messages
  /\ errLog' = Append(errLog, data)
  /\ UNCHANGED <<sfn, cp, res, spromise, outLog>>

\* cp.stderr.on('data', data => { workspace.showMessage(..., 'error') })
OnStderrData(data) ==
  /\ cp.status = "running"
  /\ Len(errLog) < MaxChunks
  /\ messages' = Append(messages, [text |-> StderrMessage(cp.cmd, cp.args, data),
                                   severity |-> "error"])
  /\ errLog' = Append(errLog, data)
  /\ UNCHANGED <<sfn, cp, res, spromise, outLog>>

\* cp.on('close', code => { if (code != 0) return reject(...); resolve(res) })
OnClose(code) ==
  /\ cp.status = "running"
  /\ cp' = [cp EXCEPT !.status = "closed", !.code = code]
  /\ spromise' = IF code # 0
                   THEN reject(spromise, CloseMessage(cp.cmd, code))
                   ELSE resolve(spromise, "string", res)
  /\ UNCHANGED <<sfn, res, messages, outLog, errLog>>

SpawnStdoutData(data) == sfn = "spawnCommand" /\ OnStdoutData(data) /\ UNCHANGED notSpawn
SpawnStderrData(data) == sfn = "spawnCommand" /\ OnStderrData(data) /\ UNCHANGED notSpawn
SpawnClose(code) == sfn = "spawnCommand" /\ OnClose(code) /\ UNCHANGED notSpawn
WithDataStdoutData(data) == sfn = "runCommandWithData" /\ OnStdoutData(data) /\ UNCHANGED notSpawn
WithDataStderrData(data) == sfn = "runCommandWithData" /\ OnStderrData(data) /\ UNCHANGED notSpawn
WithDataClose(code) == sfn = "runCommandWithData" /\ OnClose(code) /\ UNCHANGED notSpawn

SpawnNext ==
  \/ \E c \in Cmds, a \in ArgLists : SpawnCommand(c, a)
  \/ \E c \in Cmds, a \in ArgLists, d \in StdinData : RunCommandWithData(c, a, d)
  \/ \E d \in OutChunks : SpawnStdoutData(d)
  \/ \E d \in ErrChunks : SpawnStderrData(d)
  \/ \E c \in 0..MaxCode : SpawnClose(c)
  \/ \E d \in OutChunks : WithDataStdoutData(d)
  \/ \E d \in ErrChunks : WithDataStderrData(d)
  \/ \E c \in 0..MaxCode : WithDataClose(c)

\* ---------------------------------------------------------------------------
\* Properties of the program+args runner
\* ---------------------------------------------------------------------------
RECURSIVE Flatten(_)
Flatten(chunks) == IF chunks = <<>> THEN <<>> ELSE chunks[1] \o Flatten(Tail(chunks))

\* C5: the promise of spawnCommand / runCommandWithData stays pending until the
\* close event; at close it resolves, on exit code zero, with the stdout chunks
\* concatenated in arrival order, and rejects, on a non-zero code, with an error
\* describing that code; a stderr chunk changes neither the promise nor the text.
C5_SettlesAtClose ==
  /\ [](sfn # "none" =>
          /\ (cp.status = "running" => spromise = Pending)
          /\ res = Flatten(outLog)
          /\ (cp.status = "closed" =>
                IF cp.code = 0
                  THEN spromise = [state |-> "resolved", kind |-> "string",
                                   value |-> Flatten(outLog)]
                  ELSE /\ spromise.state = "rejected"
                       /\ spromise.kind = "Error"
                       /\ spromise.value = cp.cmd \o ExitedWithCode \o Str(cp.code)))
  /\ [][errLog' # errLog => (res' = res /\ spromise' = spromise)]_vars

\* Two stdout chunks interleaved with stderr output, then a clean close.
C5_Witness ==
  /\ cp.status = "closed"
  /\ cp.code = 0
  /\ outLog = <<(<<"b", "c">>), (<<"a">>)>>
  /\ errLog # <<>>
  /\ spromise = [state |-> "resolved", kind |-> "string", value |-> <<"b", "c", "a">>]

Notified(severity) ==
  /\ Len(messages) = Len(errLog)
  /\ \A i \in 1..Len(messages) :
       /\ messages[i].severity = severity
       /\ Contains(messages[i].text, errLog[i])

StderrNotInRejection ==
  spromise.state = "rejected" =>
     \A i \in 1..Len(errLog) : ~Contains(spromise.value, errLog[i])

\* C10 (as stated): every stderr chunk produces, when it arrives, exactly one
\* notification of severity warning, and the stderr text is not in the rejection.
C10_Original == Notified("warning") /\ StderrNotInRejection

\* C10 (amended): every stderr chunk produces, when it arrives and before the
\* close event, exactly one notification of severity error carrying the chunk,
\* and the stderr text is never part of the rejection value.
C10_Amended ==
  /\ [](Notified("error") /\ StderrNotInRejection)
  /\ [][errLog' # errLog =>
          /\ cp.status = "running" /\ cp'.status = "running"
          /\ Len(messages') = Len(messages) + 1
          /\ messages'[Len(messages')].text =
               <<"\"">> \o cp.cmd \o <<" ">> \o join(cp.args, <<" ">>) \o ErrorColon
                 \o errLog'[Len(errLog')]]_vars

\* Two stderr chunks were notified while the child was still running, and the
\* child was then closed with a non-zero code.
C10_Witness ==
  /\ sfn = "runCommandWithData"
  /\ Len(errLog) = 2
  /\ Len(messages) = 2
  /\ cp.status = "closed"
  /\ spromise.state = "rejected"

\* ---------------------------------------------------------------------------
\* Properties of the shell-line runner
\* ---------------------------------------------------------------------------
ViaRunCommand == fn \in {"runCommand", "safeRun"}

TimerRanFirst == trace # <<>> /\ trace[1] = "timer"
CallbackRanFirst == trace # <<>> /\ trace[1] = "callback"
TimerRan == \E i \in 1..Len(trace) : trace[i] = "timer"

TimeoutRejected ==
  promise.state = "rejected" /\ promise.kind = "Error" /\ promise.value = TimeoutMessage(timeout)

\* C1: the promise of runCommand is a timeout rejection exactly when a non-zero
\* timeout was given and the timer callback ran before the exec callback; with a
\* zero timeout no timer exists; once the exec callback has run the timer never
\* runs; and a timeout rejection is never changed by a later step.
C1_TimeoutExactly ==
  /\ [](ViaRunCommand =>
          /\ (TimeoutRejected <=> (timeout # 0 /\ TimerRanFirst))
          /\ (timeout = 0 => (timer = "none" /\ ~TimerRan))
          /\ (CallbackRanFirst => (~TimerRan /\ timer \in {"none", "cleared"})))
  /\ [][(ViaRunCommand /\ TimeoutRejected) => promise' = promise]_vars

\* A run where the timer fired first and the process completed afterwards.
C1_Witness ==
  /\ fn = "runCommand"
  /\ trace = <<"timer", "callback">>
  /\ proc.status = "exited"
  /\ TimeoutRejected

\* C2: when the exec callback of runCommand runs before any timeout, the promise
\* resolves with the captured stdout on exit status zero and otherwise rejects
\* with an error whose message carries the exit code and the captured stderr.
C2_ExitOutcome ==
  (ViaRunCommand /\ CallbackRanFirst) =>
     IF proc.code = 0
       THEN promise = [state |-> "resolved", kind |-> "string", value |-> proc.stdout]
       ELSE /\ promise.state = "rejected"
            /\ promise.kind = "Error"
            /\ Contains(promise.value, Str(proc.code))
            /\ Contains(promise.value, proc.stderr)
            /\ promise.value = ExitedWith \o Str(proc.code) \o <<"\n">> \o proc.stderr

C2_Witness ==
  /\ fn = "runCommand"
  /\ CallbackRanFirst
  /\ proc.code = 1
  /\ proc.stderr = <<"E">>
  /\ promise.state = "rejected"
  /\ Contains(promise.value, <<"1">>)

\* C3: safeRun never rejects; it resolves with the captured stdout when the
\* command succeeds and with null when runCommand fails by timeout or non-zero
\* exit, the failure being logged exactly once; and it always resolves.
C3_SafeRunNeverRejects ==
  /\ [](fn = "safeRun" =>
          /\ outer.state # "rejected"
          /\ timeout = SafeRunTimeout
          /\ (outer.state = "pending" => console = <<>>)
          /\ (outer.state = "resolved" =>
                IF CallbackRanFirst /\ proc.code = 0
                  THEN /\ outer.kind = "string"
                       /\ outer.value = proc.stdout
                       /\ console = <<>>
                  ELSE /\ outer.kind = "null"
                       /\ Len(console) = 1
                       /\ console[1] = promise.value
                       /\ promise.state = "rejected"))
  /\ (fn = "safeRun") ~> (outer.state = "resolved")

\* safeRun resolved with null after the timeout, the message logged once.
C3_Witness ==
  /\ fn = "safeRun"
  /\ TimerRanFirst
  /\ outer = [state |-> "resolved", kind |-> "null", value |-> <<>>]
  /\ console = <<TimeoutMessage(SafeRunTimeout)>>

\* C4 (as stated): getStdout is never rejected, and on a non-zero exit or an
\* elapsed timeout it resolves with an absent (null/empty) result.
C4_Original ==
  fn = "getStdout" =>
    /\ promise.state # "rejected"
    /\ ((trace # <<>> /\ (TimerRanFirst \/ proc.code # 0)) =>
          (promise.state = "resolved" /\ promise.kind \in {"null", "undefined"}))

\* C4 (amended): getStdout ignores the exit status but not the timeout: it is
\* rejected exactly when a non-zero timeout elapsed before the exec callback ran,
\* and when the exec callback runs first it resolves with the captured stdout if
\* that is non-empty and with undefined otherwise, whatever the exit code.
C4_Amended ==
  fn = "getStdout" =>
    /\ (promise.state = "rejected" <=> (timeout # 0 /\ TimerRanFirst))
    /\ (TimerRanFirst => TimeoutRejected)
    /\ (CallbackRanFirst =>
          promise = IF proc.stdout # <<>>
                      THEN [state |-> "resolved", kind |-> "string", value |-> proc.stdout]
                      ELSE [state |-> "resolved", kind |-> "undefined", value |-> <<>>])

\* getStdout resolved with the stdout of a command that exited with 1.
C4_Witness ==
  /\ fn = "getStdout"
  /\ CallbackRanFirst
  /\ proc.code = 1
  /\ proc.stdout = <<"o">>
  /\ promise = [state |-> "resolved", kind |-> "string", value |-> <<"o">>]

\* ---------------------------------------------------------------------------
\* shellescape
\* ---------------------------------------------------------------------------
MaxLen == 4         \* arguments of shellescape have at most MaxLen characters

Alphabet == {"a", " ", "\\", "'", "\""}

RECURSIVE StringsUpTo(_, _)
StringsUpTo(alphabet, n) ==
  IF n = 0 THEN {<<>>}
  ELSE LET shorter == StringsUpTo(alphabet, n - 1)
       IN  shorter \cup {Append(w, c) : w \in shorter, c \in alphabet}

ItsExample == <<"i", "t", "'", "s">>
QuoteStrings == StringsUpTo(Alphabet, MaxLen) \cup {ItsExample}

\* The character class A-Za-z0-9_/:=-
SafeChars ==
  {"A", "B", "C", "D", "E", "F", "G", "H", "I", "J", "K", "L", "M",
   "N", "O", "P", "Q", "R", "S", "T", "U", "V", "W", "X", "Y", "Z",
   "a", "b", "c", "d", "e", "f", "g", "h", "i", "j", "k", "l", "m",
   "n", "o", "p", "q", "r", "s", "t", "u", "v", "w", "x", "y", "z",
   "0", "1", "2", "3", "4", "5", "6", "7", "8", "9",
   "_", "/", ":", "=", "-"}

\* /[^A-Za-z0-9_\/:=-]/.test(s)
HasUnsafeChar(s) == \E i \in 1..Len(s) : s[i] \notin SafeChars

\* String.prototype.replace with a global literal pattern: leftmost matches,
\* never overlapping, the scan resuming after each match.
RECURSIVE ReplaceFrom(_, _, _, _)
ReplaceFrom(s, i, pat, rep) ==
  IF i > Len(s) THEN <<>>
  ELSE IF StartsWithAt(s, i, pat) THEN rep \o ReplaceFrom(s, i + Len(pat), pat, rep)
  ELSE <<s[i]>> \o ReplaceFrom(s, i + 1, pat, rep)

ReplaceAll(s, pat, rep) == ReplaceFrom(s, 1, pat, rep)

\* s.replace(/'/g, "'\\''")
EscapeQuotes(s) == ReplaceAll(s, <<"'">>, <<"'", "\\", "'", "'">>)

\* .replace(/^(?:'')+/g, ''): the longest run of '' pairs at the start is removed.
RECURSIVE StripLeadingPairs(_)
StripLeadingPairs(s) ==
  IF StartsWithAt(s, 1, <<"'", "'">>) THEN StripLeadingPairs(SubSeq(s, 3, Len(s))) ELSE s

\* the second cleanup pass with one quote too few in its pattern
CollapseEscaped_Short(s) == ReplaceAll(s, <<"\\", "'", "'">>, <<"\\", "'">>)

\* .replace(/\\'''/g, "\\'")
CollapseEscaped(s) == ReplaceAll(s, <<"\\", "'", "'", "'">>, <<"\\", "'">>)

shellescape(plat, s) ==
  IF plat = "win32"
    THEN <<"\"">> \o ReplaceAll(s, <<"\"">>, <<"\\", "\"">>) \o <<"\"">>
  ELSE IF HasUnsafeChar(s)
    THEN CollapseEscaped(StripLeadingPairs(<<"'">> \o EscapeQuotes(s) \o <<"'">>))
  ELSE s

\* How a POSIX shell splits a command line into words. The shell is the reader
\* of the token and not part of util.ts; it is what the round trip is taken over.
\* blanks separate words outside quotes, '...' is literal, "..." is literal but
\* for \ before " and \, a backslash outside quotes makes the next character
\* literal, and adjacent segments form one word.
Blank == {" ", "\t", "\n"}

RECURSIVE ShellScan(_, _, _, _, _, _)
ShellScan(s, i, mode, cur, inWord, words) ==
  IF i > Len(s)
    THEN IF mode # "none" THEN [ok |-> FALSE, words |-> <<>>]
         ELSE [ok |-> TRUE, words |-> IF inWord THEN Append(words, cur) ELSE words]
  ELSE
    LET c == s[i] IN
    IF mode = "single"
      THEN IF c = "'" THEN ShellScan(s, i + 1, "none", cur, TRUE, words)
           ELSE ShellScan(s, i + 1, "single", Append(cur, c), TRUE, words)
    ELSE IF mode = "double"
      THEN IF c = "\"" THEN ShellScan(s, i + 1, "none", cur, TRUE, words)
           ELSE IF c = "\\" /\ i < Len(s) /\ s[i + 1] \in {"\"", "\\", "$"}
             THEN ShellScan(s, i + 2, "double", Append(cur, s[i + 1]), TRUE, words)
           ELSE ShellScan(s, i + 1, "double", Append(cur, c), TRUE, words)
    ELSE IF c \in Blank
      THEN ShellScan(s, i + 1, "none", <<>>, FALSE,
                     IF inWord THEN Append(words, cur) ELSE words)
    ELSE IF c = "'" THEN ShellScan(s, i + 1, "single", cur, TRUE, words)
    ELSE IF c = "\"" THEN ShellScan(s, i + 1, "double", cur, TRUE, words)
    ELSE IF c = "\\"
      THEN IF i < Len(s)
             THEN ShellScan(s, i + 2, "none", Append(cur, s[i + 1]), TRUE, words)
             ELSE ShellScan(s, i + 1, "none", Append(cur, c), TRUE, words)
    ELSE ShellScan(s, i + 1, "none", Append(cur, c), TRUE, words)

ShellWords(s) == ShellScan(s, 1, "none", <<>>, FALSE, <<>>)

NotParsed == [ok |-> FALSE, words |-> <<>>]

QuoteInputs ==
  /\ platform \in {"posix", "win32"}
  /\ qs \in QuoteStrings
  /\ qout = <<>>
  /\ qwords = NotParsed
  /\ qpc = "start"

IdleQuote ==
  /\ platform = "posix"
  /\ qs = <<>>
  /\ qout = <<>>
  /\ qwords = NotParsed
  /\ qpc = "start"

Shellescape ==
  /\ qpc = "start"
  /\ qout' = shellescape(platform, qs)
  /\ qpc' = "escaped"
  /\ UNCHANGED <<platform, qs, qwords>>
  /\ UNCHANGED notQuote

\* The escaped token is handed to a POSIX shell, which reads it back.
ShellRead ==
  /\ qpc = "escaped"
  /\ platform = "posix"
  /\ qwords' = ShellWords(qout)
  /\ qpc' = "parsed"
  /\ UNCHANGED <<platform, qs, qout>>
  /\ UNCHANGED notQuote

QuoteNext == Shellescape \/ ShellRead

RoundTrips == qwords = [ok |-> TRUE, words |-> <<qs>>]

HasQuote(s) == \E i \in 1..Len(s) : s[i] = "'"

\* C6: on POSIX, for every string s (the empty string included), a shell reads
\* shellescape(s) back as exactly one word equal to s.
C6_RoundTripAll == (platform = "posix" /\ qpc = "parsed") => RoundTrips

\* C9: on POSIX, for every string s with at least one single quote, a shell
\* reads shellescape(s), cleanup passes included, back as exactly one word equal
\* to s; and it's gives 'it'\''s'.
C9_RoundTripQuotes ==
  /\ (platform = "posix" /\ qpc = "parsed" /\ HasQuote(qs)) => RoundTrips
  /\ (platform = "posix" /\ qpc # "start" /\ qs = ItsExample) =>
        qout = <<"'", "i", "t", "'", "\\", "'", "'", "s", "'">>

\* A string with a leading quote, a backslash directly before a quote and a
\* trailing quote: both cleanup passes changed the token, and it read back.
C9_Witness ==
  /\ platform = "posix"
  /\ qpc = "parsed"
  /\ qs = <<"'", "\\", "'", "'">>
  /\ qout # <<"'">> \o EscapeQuotes(qs) \o <<"'">>
  /\ RoundTrips

\* ---------------------------------------------------------------------------
\* equals
\*
\* A JavaScript value is [t, p, keys, kids]: t is its kind, p the literal of a
\* primitive, keys the own enumerable keys of a plain object in insertion
\* order, kids the elements of an array or the values of an object (by key
\* position).
\* ---------------------------------------------------------------------------
MaxNodes == 3       \* the arguments of equals have at most MaxNodes nodes each

Null == [t |-> "null", p |-> "", keys |-> <<>>, kids |-> <<>>]
Undefined == [t |-> "undefined", p |-> "", keys |-> <<>>, kids |-> <<>>]
Primitive(t, p) == [t |-> t, p |-> p, keys |-> <<>>, kids |-> <<>>]
Array(kids) == [t |-> "array", p |-> "", keys |-> <<>>, kids |-> kids]
Object(keys, kids) == [t |-> "object", p |-> "", keys |-> keys, kids |-> kids]

Leaves ==
  {Null, Undefined, Primitive("boolean", "true"), Primitive("number", "0"),
   Primitive("number", "1"), Primitive("string", "a")}

\* the primitives tried as array elements and property values
ElementLeaves == {Null, Undefined, Primitive("number", "0"), Primitive("number", "1")}

KeyLists == {<<>>, <<"a">>, <<"b">>, <<"a", "b">>, <<"b", "a">>}

RECURSIVE ElementsOfSize(_), KidsOfSize(_, _)
\* the array elements and property values with exactly n nodes
ElementsOfSize(n) ==
  IF n = 1 THEN ElementLeaves \cup {Array(<<>>), Object(<<>>, <<>>)}
  ELSE UNION {{Array(kids) : kids \in KidsOfSize(n - 1, len)} : len \in 1..(n - 1)}
       \cup UNION {{Object(keys, kids) : kids \in KidsOfSize(n - 1, Len(keys))} :
                     keys \in {k \in KeyLists : Len(k) \in 1..(n - 1)}}

\* the sequences of len values with n nodes in all
KidsOfSize(n, len) ==
  IF len = 0 THEN (IF n = 0 THEN {<<>>} ELSE {})
  ELSE UNION {{<<v>> \o rest : v \in ElementsOfSize(k), rest \in KidsOfSize(n - k, len - 1)} :
                k \in 1..(n - len + 1)}

\* the arguments with exactly n nodes
ValuesOfSize(n) == IF n = 1 THEN Leaves \cup ElementsOfSize(1) ELSE ElementsOfSize(n)

Values == UNION {ValuesOfSize(n) : n \in 1..MaxNodes}

Number(p) == Primitive("number", p)
\* [1,[2,3]] and [1,2] against [1,2,3]
ExamplePairs ==
  {<<Array(<<Number("1"), Array(<<Number("2"), Number("3")>>)>>),
     Array(<<Number("1"), Array(<<Number("2"), Number("3")>>)>>)>>,
   <<Array(<<Number("1"), Number("2")>>),
     Array(<<Number("1"), Number("2"), Number("3")>>)>>}

IsContainer(v) == v.t \in {"array", "object"}

\* typeof
typeof(v) ==
  IF v.t \in {"null", "array", "object"} THEN "object" ELSE v.t

\* Array.isArray
isArray(v) == v.t = "array"

\* one === other: primitives by kind and value, objects by reference
StrictEquals(a, b, same) ==
  IF IsContainer(a) \/ IsContainer(b) THEN same ELSE a.t = b.t /\ a.p = b.p

\* The UTF-16 code unit of a one-character key, by which sort() orders keys.
CodeUnit(k) == IF k = "a" THEN 97 ELSE IF k = "b" THEN 98 ELSE 99

RECURSIVE InsertSorted(_, _)
InsertSorted(k, list) ==
  IF list = <<>> THEN <<k>>
  ELSE IF CodeUnit(k) <= CodeUnit(list[1]) THEN <<k>> \o list
  ELSE <<list[1]>> \o InsertSorted(k, Tail(list))

\* the key lists compared in insertion order
sort_Unsorted(list) == list

\* Array.prototype.sort() without a comparator
RECURSIVE sort(_)
sort(list) == IF list = <<>> THEN <<>> ELSE InsertSorted(list[1], sort(Tail(list)))

\* the array of key strings pushed by `for (key in one)`
KeyArray(keys) == Array([i \in 1..Len(keys) |-> Primitive("string", keys[i])])

\* one[key]
Get(v, key) ==
  IF \E i \in 1..Len(v.keys) : v.keys[i] = key
    THEN v.kids[CHOOSE i \in 1..Len(v.keys) : v.keys[i] = key]
    ELSE Undefined

RECURSIVE equals(_, _, _)
equals(a, b, same) ==
  IF StrictEquals(a, b, same) THEN TRUE
  ELSE IF a.t \in {"null", "undefined"} \/ b.t \in {"null", "undefined"} THEN FALSE
  ELSE IF typeof(a) # typeof(b) THEN FALSE
  ELSE IF typeof(a) # "object" THEN FALSE
  ELSE IF isArray(a) # isArray(b) THEN FALSE
  ELSE IF isArray(a)
    THEN IF Len(a.kids) # Len(b.kids) THEN FALSE
         ELSE \A i \in 1..Len(a.kids) : equals(a.kids[i], b.kids[i], FALSE)
  ELSE LET oneKeys == sort(a.keys)
           otherKeys == sort(b.keys)
       IN  IF ~equals(KeyArray(oneKeys), KeyArray(otherKeys), FALSE) THEN FALSE
           ELSE \A i \in 1..Len(oneKeys) :
                  equals(Get(a, oneKeys[i]), Get(b, oneKeys[i]), FALSE)

EqualsInputs ==
  /\ \E pair \in (Values \X Values) \cup ExamplePairs :
       one = pair[1] /\ other = pair[2]
  /\ sameRef \in {same \in BOOLEAN : same => (one = other /\ IsContainer(one))}
  /\ eqResult = FALSE
  /\ eqpc = "start"

IdleEquals ==
  /\ one = Null
  /\ other = Null
  /\ sameRef = FALSE
  /\ eqResult = FALSE
  /\ eqpc = "start"

Equals ==
  /\ eqpc = "start"
  /\ eqResult' = equals(one, other, sameRef)
  /\ eqpc' = "done"
  /\ UNCHANGED <<one, other, sameRef>>
  /\ UNCHANGED notEquals

EqualsNext == Equals

\* Structural equality, whatever the insertion order of keys.
KeySet(v) == {v.keys[i] : i \in 1..Len(v.keys)}

RECURSIVE SameStructure(_, _)
SameStructure(a, b) ==
  /\ a.t = b.t
  /\ IF a.t = "array"
       THEN /\ Len(a.kids) = Len(b.kids)
            /\ \A i \in 1..Len(a.kids) : SameStructure(a.kids[i], b.kids[i])
     ELSE IF a.t = "object"
       THEN /\ KeySet(a) = KeySet(b)
            /\ \A k \in KeySet(a) : SameStructure(Get(a, k), Get(b, k))
     ELSE a.p = b.p

\* C7: equals(a, b) is true exactly when a and b are the same primitive, or
\* arrays of equal length with pairwise equal elements, or mappings with the
\* same key set and equal values at every key, whatever the insertion order;
\* values of different kinds (null/undefined, array/mapping, absent/empty) are
\* unequal.
C7_StructuralEquality ==
  eqpc = "done" =>
    /\ (eqResult <=> SameStructure(one, other))
    /\ (one.t # other.t => ~eqResult)

\* Two mappings with the same entries inserted in opposite orders are equal.
C7_Witness ==
  /\ eqpc = "done"
  /\ ~sameRef
  /\ one.keys = <<"a", "b">>
  /\ other.keys = <<"b", "a">>
  /\ one # other
  /\ eqResult

\* ---------------------------------------------------------------------------
\* getUrl
\* ---------------------------------------------------------------------------
MaxRest == 3        \* remotes have at most MaxRest characters after the host

DotGit == <<".", "g", "i", "t">>
Git == <<"g", "i", "t">>
GitAt == <<"g", "i", "t", "@">>
HttpsScheme == <<"h", "t", "t", "p", "s", ":", "/", "/">>
GitScheme == <<"g", "i", "t", ":", "/", "/">>
GithubCom == <<"g", "i", "t", "h", "u", "b", ".", "c", "o", "m">>
GitlabCom == <<"g", "i", "t", "l", "a", "b", ".", "c", "o", "m">>
BlobSegment == <<"/", "b", "l", "o", "b", "/">>
UndefinedText == <<"u", "n", "d", "e", "f", "i", "n", "e", "d">>
CantGetUrl == <<"C", "a", "n", "'", "t", " ", "g", "e", "t", " ", "u", "r", "l", " ", "f", "o", "r", "m", ":", " ">>
FooBar == <<":", "f", "o", "o", "/", "b", "a", "r">>
Main == <<"m", "a", "i", "n">>
SrcXts == <<"s", "r", "c", "/", "x", ".", "t", "s">>

RestAlphabet == {":", "/", "f"}

Remotes ==
  {prefix \o host \o rest \o suffix :
     prefix \in {GitAt, HttpsScheme, GitScheme},
     host \in {GithubCom, GitlabCom},
     rest \in (StringsUpTo(RestAlphabet, MaxRest) \ {<<>>}) \cup {FooBar},
     suffix \in {<<>>, DotGit}}

NoLines == [kind |-> "undefined", nums |-> <<>>, text |-> <<>>]
LineArray(nums) == [kind |-> "array", nums |-> nums, text |-> <<>>]
LineString(text) == [kind |-> "string", nums |-> <<>>, text |-> text]

LineSelectors ==
  {NoLines, LineArray(<<10, 20>>), LineArray(<<7>>), LineArray(<<>>),
   LineString(<<"L", "5">>), LineString(<<>>)}

StartsWith(s, p) == StartsWithAt(s, 1, p)
EndsWith(s, p) == Len(p) <= Len(s) /\ StartsWithAt(s, Len(s) - Len(p) + 1, p)

\* remote.replace(/\.git$/, '')
StripDotGit(s) == IF EndsWith(s, DotGit) THEN SubSeq(s, 1, Len(s) - Len(DotGit)) ELSE s

\* String.prototype.slice(n)
slice(s, n) == SubSeq(s, n + 1, Len(s))

IndexOf(s, c) ==
  IF \E i \in 1..Len(s) : s[i] = c
    THEN CHOOSE i \in 1..Len(s) : s[i] = c /\ \A j \in 1..(i - 1) : s[j] # c
    ELSE 0

\* the pieces of s between every occurrence of the separator
RECURSIVE SplitAll(_, _)
SplitAll(s, sep) ==
  LET i == IndexOf(s, sep)
  IN  IF i = 0 THEN <<s>>
      ELSE <<SubSeq(s, 1, i - 1)>> \o SplitAll(SubSeq(s, i + 1, Len(s)), sep)

\* String.prototype.split(sep, limit): the string is split at every separator
\* and the list of pieces is cut to its first `limit` entries.
split(s, sep, limit) ==
  LET all == SplitAll(s, sep)
  IN  SubSeq(all, 1, IF Len(all) < limit THEN Len(all) ELSE limit)

\* `${parts[i]}` for a zero-based index i: a missing entry prints as undefined.
Part(parts, i) == IF i + 1 <= Len(parts) THEN parts[i + 1] ELSE UndefinedText

\* the rewriting of an SSH-style remote
Rewrite(uri) ==
  IF StartsWith(uri, Git)
    THEN LET str == slice(uri, 4)
             parts == split(str, ":", 2)
         IN  HttpsScheme \o Part(parts, 0) \o <<"/">> \o Part(parts, 1)
    ELSE uri

\* Uri.parse(uri).authority: after an optional `scheme:`, the text between a
\* leading // and the next /, ? or #.
RECURSIVE TakeUntil(_, _)
TakeUntil(s, stops) ==
  IF s = <<>> \/ s[1] \in stops THEN <<>> ELSE <<s[1]>> \o TakeUntil(Tail(s), stops)

Authority(uri) ==
  LET scheme == TakeUntil(uri, {":", "/", "?", "#"})
      hasScheme == scheme # <<>> /\ Len(scheme) < Len(uri) /\ uri[Len(scheme) + 1] = ":"
      rest == IF hasScheme THEN slice(uri, Len(scheme) + 1) ELSE uri
  IN  IF StartsWith(rest, <<"/", "/">>)
        THEN TakeUntil(slice(rest, 2), {"/", "?", "#"})
        ELSE <<>>

\* lines.map(l => `L${l}`).join('-')
LineAnchor(nums) == join([i \in 1..Len(nums) |-> <<"L">> \o Str(nums[i])], <<"-">>)

Anchor(ls) ==
  IF ls.kind = "array" THEN LineAnchor(ls.nums)
  ELSE IF ls.kind = "string" THEN ls.text
  ELSE <<>>

AnchorSuffix(ls) == IF Anchor(ls) # <<>> THEN <<"#">> \o Anchor(ls) ELSE <<>>

UrlInputs ==
  /\ remote \in Remotes
  /\ branch = Main
  /\ filepath = SrcXts
  /\ lines \in LineSelectors
  /\ url = <<>>
  /\ notices = <<>>
  /\ upc = "start"

IdleUrl ==
  /\ remote = <<>>
  /\ branch = <<>>
  /\ filepath = <<>>
  /\ lines = NoLines
  /\ url = <<>>
  /\ notices = <<>>
  /\ upc = "start"

GetUrl ==
  /\ upc = "start"
  /\ LET uri == Rewrite(StripDotGit(remote))
         authority == Authority(uri)
     IN  IF StartsWith(authority, GithubCom)
           THEN /\ url' = uri \o BlobSegment \o branch \o <<"/">> \o filepath
                             \o AnchorSuffix(lines)
                /\ notices' = notices
           ELSE /\ notices' = Append(notices, [text |-> CantGetUrl \o authority,
                                               severity |-> "warning"])
                /\ url' = <<>>
  /\ upc' = "done"
  /\ UNCHANGED <<remote, branch, filepath, lines>>
  /\ UNCHANGED notUrl

UrlNext == GetUrl

\* The reading of the rewriting in which only the first colon splits.
Remainder == slice(StripDotGit(remote), 4)
HostOfRemainder == SubSeq(Remainder, 1, IndexOf(Remainder, ":") - 1)
PathOfRemainder == SubSeq(Remainder, IndexOf(Remainder, ":") + 1, Len(Remainder))

\* C8: when the remote without its trailing .git begins with git, the first 4
\* characters are dropped and the remainder is split at its first colon only,
\* host before it and path everything after it, further colons included; for a
\* github.com host the result is https://{host}/{path}/blob/{branch}/{filepath}
\* plus the anchor.
C8_FirstColonSplit ==
  (/\ upc = "done"
   /\ StartsWith(StripDotGit(remote), Git)
   /\ IndexOf(Remainder, ":") # 0
   /\ HostOfRemainder = GithubCom)
  => url = HttpsScheme \o HostOfRemainder \o <<"/">> \o PathOfRemainder
             \o BlobSegment \o branch \o <<"/">> \o filepath \o AnchorSuffix(lines)

\* ---------------------------------------------------------------------------
\* Specifications: one per component; the calls of the other components are
\* not running (each call owns its state, no two calls share any).
\* ---------------------------------------------------------------------------
RunInit == IdleRun /\ IdleSpawn /\ IdleQuote /\ IdleEquals /\ IdleUrl

SpecRun == RunInit /\ [][RunNext]_vars

\* The event loop runs every armed timer and every pending continuation.
SpecRunFair ==
  /\ SpecRun
  /\ WF_vars(RunCommandTimer)
  /\ WF_vars(SafeRunResume)

SpawnInit == IdleSpawn /\ IdleRun /\ IdleQuote /\ IdleEquals /\ IdleUrl

SpecSpawn == SpawnInit /\ [][SpawnNext]_vars

QuoteInit == QuoteInputs /\ IdleRun /\ IdleSpawn /\ IdleEquals /\ IdleUrl

SpecQuote == QuoteInit /\ [][QuoteNext]_vars

EqualsInit == EqualsInputs /\ IdleRun /\ IdleSpawn /\ IdleQuote /\ IdleUrl

SpecEquals == EqualsInit /\ [][EqualsNext]_vars

UrlInit == UrlInputs /\ IdleRun /\ IdleSpawn /\ IdleQuote /\ IdleEquals

SpecUrl == UrlInit /\ [][UrlNext]_vars

====
